---- MODULE Spec2Model ----
(***************************************************************************)
(* Model of aat-tracking-history (src/index.js): processDelivery builds    *)
(* the publisher / subscriber / both presence intervals of one delivery    *)
(* from its presence history, clips them to the delivery's time bounds and *)
(* aggregates presence statistics.                                         *)
(*                                                                         *)
(* JavaScript values are modelled as tagged records:                       *)
(*   Date    [type |-> "Date", valid, time]   (valid = FALSE: Invalid Date,*)
(*            whose time value is NaN)                                     *)
(*   number  [type |-> "number", nan, value]                               *)
(*   a quotient a / b * 100 keeps its exact value as num / den             *)
(*   undefined  [type |-> "undefined"]                                     *)
(* Interval objects live in `heap` (a sequence; an object's reference is   *)
(* its index), so that an assignment to interval.start is visible through  *)
(* every list that holds the object.                                       *)
(***************************************************************************)
EXTENDS Integers, Sequences, FiniteSets

\* Bounds of the model.
MaxTick == 3
MaxEvents == 4
NumDeliveries == 2

\* Instants, in milliseconds since the epoch.
Times == {10 * k : k \in 0 .. MaxTick}

\* ---------------------------------------------------------------- values

Undefined == [type |-> "undefined"]

\* `undefined` as the value of an interval reference (no object).
undefined == 0

Date(t) == [type |-> "Date", valid |-> TRUE, time |-> t]

InvalidDate == [type |-> "Date", valid |-> FALSE, time |-> 0]

Number(n) == [type |-> "number", nan |-> FALSE, value |-> n]

NaN == [type |-> "number", nan |-> TRUE, value |-> 0]

\* The date time strings a caller may pass: an ISO string of an instant, or
\* text that is no date.
IsoString(t) == [parseable |-> TRUE, instant |-> t]

Garbage == [parseable |-> FALSE, instant |-> 0]

DateStrings == {IsoString(t) : t \in Times} \cup {Garbage}

\* new Date(string): never throws; unparseable text yields an Invalid Date.
NewDate(s) == IF s.parseable THEN Date(s.instant) ELSE InvalidDate

\* Whether new Date(string) throws (it does not, for any string).
NewDateThrows(s) == FALSE

\* date.getTime()
getTime(d) == IF d.valid THEN Number(d.time) ELSE NaN

\* a - b and a + b on numbers
Minus(a, b) == IF a.nan \/ b.nan THEN NaN ELSE Number(a.value - b.value)

Plus(a, b) == IF a.nan \/ b.nan THEN NaN ELSE Number(a.value + b.value)

\* a / b * 100, kept exact; x / NaN and NaN / x are NaN
PercentOf(a, b) ==
    IF a.nan \/ b.nan
    THEN [type |-> "number", nan |-> TRUE, num |-> 0, den |-> 1]
    ELSE [type |-> "number", nan |-> FALSE, num |-> a.value * 100, den |-> b.value]

\* Relational operators on Dates compare the time values; every comparison
\* with NaN is false.
\* A comparison that lets equal instants through.
DateGE_strict(a, b) == a.valid /\ b.valid /\ a.time > b.time

DateGE(a, b) == a.valid /\ b.valid /\ a.time >= b.time

DateLE(a, b) == a.valid /\ b.valid /\ a.time <= b.time

DateLT(a, b) == a.valid /\ b.valid /\ a.time < b.time

DateGT(a, b) == a.valid /\ b.valid /\ a.time > b.time

\* ----------------------------------------------------------------- state

VARIABLES
    start, end,                 \* the delivery's bounds, as given
    pc,                         \* position in processDelivery
    promise,                    \* the promise processDelivery returns
    historyRequested,           \* presence.history() has been called
    startDate, endDate,
    itemIndex,                  \* number of history items consumed so far
    lastTimestamp,              \* timestamp of the last consumed item
    heap,                       \* the interval objects
    publisherPresent, subscriberPresent, bothPresent,
    publisherIntervals, currentPublisherInterval,
    subscriberIntervals, currentSubscriberInterval,
    bothIntervals, currentBothInterval,
    \* the record of the items consumed, kept under SpecTrace only
    item,                       \* the item the loop consumed last
    lastActionOf,               \* each role's most recent action so far
    \* processDeliveries
    deliveries,                 \* its argument
    apiKeySet,                  \* ABLY_API_KEY is set in the environment
    unhandledRejections,        \* what the runtime does with one
    nodeProcess,                \* "running" or "exited"
    processDeliveriesPc,        \* position in processDeliveries
    callbackState,              \* each forEach callback's position
    histories,                  \* the Map, as the set of the ids it holds
    processDeliveriesPromise    \* the promise processDeliveries returns

vars == <<start, end, pc, promise, historyRequested, startDate, endDate,
          itemIndex, lastTimestamp, heap,
          publisherPresent, subscriberPresent, bothPresent,
          publisherIntervals, currentPublisherInterval,
          subscriberIntervals, currentSubscriberInterval,
          bothIntervals, currentBothInterval,
          item, lastActionOf,
          deliveries, apiKeySet, unhandledRejections, nodeProcess,
          processDeliveriesPc, callbackState, histories,
          processDeliveriesPromise>>

\* The variables of one processDelivery call.
deliveryVars == <<start, end, pc, promise, historyRequested, startDate, endDate,
                  itemIndex, lastTimestamp, heap,
                  publisherPresent, subscriberPresent, bothPresent,
                  publisherIntervals, currentPublisherInterval,
                  subscriberIntervals, currentSubscriberInterval,
                  bothIntervals, currentBothInterval>>

traceVars == <<item, lastActionOf>>

deliveriesVars == <<deliveries, apiKeySet, unhandledRejections, nodeProcess,
                    processDeliveriesPc, callbackState, histories,
                    processDeliveriesPromise>>

loopVars == <<itemIndex, lastTimestamp, heap,
              publisherPresent, subscriberPresent, bothPresent,
              publisherIntervals, currentPublisherInterval,
              subscriberIntervals, currentSubscriberInterval,
              bothIntervals, currentBothInterval>>

Roles == {"PUBLISHER", "SUBSCRIBER"}

\* Presence actions of a history item: the two that signal presence, leave,
\* and one more that the loop does not name.
PresenceActions == {"enter", "update", "leave", "absent"}

Pending == [state |-> "pending"]

Rejected(reason) == [state |-> "rejected", reason |-> reason]

Resolved(value) == [state |-> "resolved", value |-> value]

\* No item consumed yet.
NoItem == [publisherOrSubscriber |-> "none", action |-> "none"]

TraceIdle ==
    /\ item = NoItem
    /\ lastActionOf = [role \in Roles |-> "none"]

\* processDeliveries not called.
DeliveriesIdle ==
    /\ deliveries = <<>>
    /\ apiKeySet = TRUE
    /\ unhandledRejections = "warn"
    /\ nodeProcess = "running"
    /\ processDeliveriesPc = "idle"
    /\ callbackState = <<>>
    /\ histories = {}
    /\ processDeliveriesPromise = Pending

\* Lines 54-55, 75-86: processDelivery's promise and locals at its start.
InitLocals ==
    /\ pc = "validate"
    /\ promise = Pending
    /\ historyRequested = FALSE
    /\ startDate = Undefined
    /\ endDate = Undefined
    /\ itemIndex = 0
    /\ lastTimestamp = 0
    /\ heap = <<>>
    /\ publisherPresent = FALSE
    /\ subscriberPresent = FALSE
    /\ bothPresent = FALSE
    /\ publisherIntervals = <<>>
    /\ currentPublisherInterval = undefined
    /\ subscriberIntervals = <<>>
    /\ currentSubscriberInterval = undefined
    /\ bothIntervals = <<>>
    /\ currentBothInterval = undefined

\* One processDelivery call, with any bounds.
Init ==
    /\ start \in DateStrings
    /\ end \in DateStrings
    /\ InitLocals
    /\ TraceIdle
    /\ DeliveriesIdle

\* ------------------------------------------------------ bounds validation

\* Lines 55-68: parse the bounds, reject unparseable or incompatible bounds,
\* otherwise request the presence history.
ValidateBounds ==
    /\ pc = "validate"
    /\ IF NewDateThrows(start) \/ NewDateThrows(end)
       THEN /\ promise' = Rejected("Unable to parse given date time bounds")
            /\ pc' = "rejected"
            /\ UNCHANGED <<startDate, endDate, historyRequested>>
       ELSE /\ startDate' = NewDate(start)
            /\ endDate' = NewDate(end)
            /\ IF DateGE(NewDate(start), NewDate(end))
               THEN /\ promise' = Rejected("Incompatible time bounds given; end is not later than start")
                    /\ pc' = "rejected"
                    /\ UNCHANGED historyRequested
               ELSE /\ historyRequested' = TRUE
                    /\ pc' = "history"
                    /\ UNCHANGED promise
    /\ UNCHANGED <<start, end>>
    /\ UNCHANGED loopVars
    /\ UNCHANGED <<traceVars, deliveriesVars>>

\* Lines 68-86: the history callback. An error rejects; when the client
\* passes no result object along with the error, destructuring {items}
\* throws inside the callback and the promise is never settled.
HistoryCallback ==
    /\ pc = "history"
    /\ \E err \in BOOLEAN, resultGiven \in BOOLEAN :
         IF err
         THEN IF resultGiven
              THEN /\ promise' = Rejected("Unable to query presence for delivery")
                   /\ pc' = "rejected"
              ELSE /\ pc' = "threw"
                   /\ UNCHANGED promise
         ELSE /\ resultGiven
              /\ pc' = "loop"
              /\ UNCHANGED promise
    /\ UNCHANGED <<start, end, historyRequested, startDate, endDate>>
    /\ UNCHANGED loopVars
    /\ UNCHANGED <<traceVars, deliveriesVars>>

\* ------------------------------------------------------------ event loop

\* A presence test that takes only enter for a presence signal.
signalsPresence_enterOnly(presenceAction) ==
    presenceAction = "enter"

\* Line 97 / 111: the actions that signal presence.
signalsPresence(presenceAction) ==
    presenceAction = "enter" \/ presenceAction = "update"

\* Lines 101, 115, 129: a new interval object; it has no `end` yet. The
\* object's presenceAction property, which is only ever printed, is left out.
newInterval(publisherOrSubscriber, presenceAction, timestamp) ==
    [publisherOrSubscriber |-> publisherOrSubscriber,
     start |-> timestamp,
     end |-> Undefined]

\* A track's step that puts the interval it ends at the front of the list.
trackStep_unshifts(present, current, intervals, h, newPresence, tag, presenceAction, timestamp) ==
    IF newPresence # present
    THEN IF newPresence
         THEN [present |-> newPresence,
               current |-> Len(h) + 1,
               intervals |-> intervals,
               heap |-> Append(h, newInterval(tag, presenceAction, timestamp)),
               threw |-> FALSE]
         ELSE [present |-> newPresence,
               current |-> undefined,
               intervals |-> <<current>> \o intervals,
               heap |-> [h EXCEPT ![current].end = timestamp],
               threw |-> FALSE]
    ELSE [present |-> present, current |-> current,
          intervals |-> intervals, heap |-> h, threw |-> FALSE]

\* A track's step that ends the current interval at its own start.
trackStep_endsAtStart(present, current, intervals, h, newPresence, tag, presenceAction, timestamp) ==
    IF newPresence # present
    THEN IF newPresence
         THEN [present |-> newPresence,
               current |-> Len(h) + 1,
               intervals |-> intervals,
               heap |-> Append(h, newInterval(tag, presenceAction, timestamp)),
               threw |-> FALSE]
         ELSE [present |-> newPresence,
               current |-> undefined,
               intervals |-> Append(intervals, current),
               heap |-> [h EXCEPT ![current].end = h[current].start],
               threw |-> FALSE]
    ELSE [present |-> present, current |-> current,
          intervals |-> intervals, heap |-> h, threw |-> FALSE]

\* A track's step that starts a new interval on every presence signal, also
\* when the track is present already.
trackStep_restarts(present, current, intervals, h, newPresence, tag, presenceAction, timestamp) ==
    IF newPresence
    THEN [present |-> newPresence,
          current |-> Len(h) + 1,
          intervals |-> intervals,
          heap |-> Append(h, newInterval(tag, presenceAction, timestamp)),
          threw |-> FALSE]
    ELSE IF present
         THEN [present |-> newPresence,
               current |-> undefined,
               intervals |-> Append(intervals, current),
               heap |-> [h EXCEPT ![current].end = timestamp],
               threw |-> FALSE]
         ELSE [present |-> present, current |-> current,
               intervals |-> intervals, heap |-> h, threw |-> FALSE]

\* A track's step that ends the current interval without clearing the
\* reference to it.
trackStep_keepsCurrent(present, current, intervals, h, newPresence, tag, presenceAction, timestamp) ==
    IF newPresence # present
    THEN IF newPresence
         THEN [present |-> newPresence,
               current |-> Len(h) + 1,
               intervals |-> intervals,
               heap |-> Append(h, newInterval(tag, presenceAction, timestamp)),
               threw |-> FALSE]
         ELSE [present |-> newPresence,
               current |-> current,
               intervals |-> Append(intervals, current),
               heap |-> [h EXCEPT ![current].end = timestamp],
               threw |-> FALSE]
    ELSE [present |-> present, current |-> current,
          intervals |-> intervals, heap |-> h, threw |-> FALSE]

\* Lines 98-109 (publisher), 112-123 (subscriber), 126-137 (both): one
\* track's step. When the track's presence changes, either start a new
\* interval (allocate it, keep its reference as the current one) or end the
\* current one (set its end, push it, clear the reference). Assigning .end
\* through an undefined reference throws a TypeError.
trackStep(present, current, intervals, h, newPresence, tag, presenceAction, timestamp) ==
    IF newPresence # present
    THEN IF newPresence
         THEN [present |-> newPresence,
               current |-> Len(h) + 1,
               intervals |-> intervals,
               heap |-> Append(h, newInterval(tag, presenceAction, timestamp)),
               threw |-> FALSE]
         ELSE IF current = undefined
              THEN [present |-> present, current |-> current,
                    intervals |-> intervals, heap |-> h, threw |-> TRUE]
              ELSE [present |-> newPresence,
                    current |-> undefined,
                    intervals |-> Append(intervals, current),
                    heap |-> [h EXCEPT ![current].end = timestamp],
                    threw |-> FALSE]
    ELSE [present |-> present, current |-> current,
          intervals |-> intervals, heap |-> h, threw |-> FALSE]

\* A track reset by an item of the other role.
trackSkip_resets(present, current, intervals, h) ==
    [present |-> FALSE, current |-> undefined,
     intervals |-> intervals, heap |-> h, threw |-> FALSE]

\* A track left alone by an item.
trackSkip(present, current, intervals, h) ==
    [present |-> present, current |-> current,
     intervals |-> intervals, heap |-> h, threw |-> FALSE]

\* A presence of both that either role's presence gives.
bothPresence_either(newPublisherPresence, newSubscriberPresence) ==
    newPublisherPresence \/ newSubscriberPresence

\* Line 125: both are present when the publisher and the subscriber are.
bothPresence(newPublisherPresence, newSubscriberPresence) ==
    newPublisherPresence /\ newSubscriberPresence

\* Lines 89-137: one iteration of the loop, for the item
\* {data.type = publisherOrSubscriber, action = presenceAction, timestamp}.
\* The history is requested in forwards direction, so an item's timestamp is
\* not before the previous item's. The items are drawn as the loop reaches
\* them; the array ends after any number of items up to MaxEvents.
processItem(publisherOrSubscriber, presenceAction, time) ==
    /\ pc = "loop"
    /\ itemIndex < MaxEvents
    /\   LET timestamp == Date(time)
             newPublisherPresence ==
                 IF publisherOrSubscriber = "PUBLISHER"
                 THEN signalsPresence(presenceAction) ELSE publisherPresent
             newSubscriberPresence ==
                 IF publisherOrSubscriber = "PUBLISHER"
                 THEN subscriberPresent ELSE signalsPresence(presenceAction)
             pub == IF publisherOrSubscriber = "PUBLISHER"
                    THEN trackStep(publisherPresent, currentPublisherInterval,
                                   publisherIntervals, heap, newPublisherPresence,
                                   publisherOrSubscriber, presenceAction, timestamp)
                    ELSE trackSkip(publisherPresent, currentPublisherInterval,
                                   publisherIntervals, heap)
             sub == IF publisherOrSubscriber = "PUBLISHER"
                    THEN trackSkip(subscriberPresent, currentSubscriberInterval,
                                   subscriberIntervals, pub.heap)
                    ELSE trackStep(subscriberPresent, currentSubscriberInterval,
                                   subscriberIntervals, pub.heap, newSubscriberPresence,
                                   publisherOrSubscriber, presenceAction, timestamp)
             newBothPresence == bothPresence(newPublisherPresence,
                                             newSubscriberPresence)
             both == trackStep(bothPresent, currentBothInterval, bothIntervals,
                               sub.heap, newBothPresence, "BOTH", presenceAction,
                               timestamp)
         IN  IF pub.threw \/ sub.threw
             THEN /\ pc' = "threw"
                  /\ UNCHANGED loopVars
             ELSE /\ publisherPresent' = pub.present
                  /\ currentPublisherInterval' = pub.current
                  /\ publisherIntervals' = pub.intervals
                  /\ subscriberPresent' = sub.present
                  /\ currentSubscriberInterval' = sub.current
                  /\ subscriberIntervals' = sub.intervals
                  /\ bothPresent' = both.present
                  /\ currentBothInterval' = both.current
                  /\ bothIntervals' = both.intervals
                  /\ heap' = both.heap
                  /\ itemIndex' = itemIndex + 1
                  /\ lastTimestamp' = time
                  /\ pc' = IF both.threw THEN "threw" ELSE "loop"
    /\ UNCHANGED <<start, end, promise, historyRequested, startDate, endDate>>
    /\ UNCHANGED deliveriesVars

\* Line 88: the loop takes the next item of the history.
ProcessItem ==
    /\ \E publisherOrSubscriber \in Roles, presenceAction \in PresenceActions,
          time \in {t \in Times : t >= lastTimestamp} :
         processItem(publisherOrSubscriber, presenceAction, time)
    /\ UNCHANGED traceVars

\* The same step, with the item recorded.
ProcessItemTraced ==
    \E publisherOrSubscriber \in Roles, presenceAction \in PresenceActions,
       time \in {t \in Times : t >= lastTimestamp} :
        /\ processItem(publisherOrSubscriber, presenceAction, time)
        /\ item' = [publisherOrSubscriber |-> publisherOrSubscriber,
                    action |-> presenceAction]
        /\ lastActionOf' = [lastActionOf EXCEPT
                                ![publisherOrSubscriber] = presenceAction]

\* A track's list and heap with the current interval, if any, ended at `at`.
closeOpen(current, intervals, h, at) ==
    IF current = undefined
    THEN [intervals |-> intervals, heap |-> h]
    ELSE [intervals |-> Append(intervals, current),
          heap |-> [h EXCEPT ![current].end = at]]

\* A loop end that closes the intervals still open at the last timestamp.
loopExit_closesOpen ==
    LET at == Date(lastTimestamp)
        p == closeOpen(currentPublisherInterval, publisherIntervals, heap, at)
        s == closeOpen(currentSubscriberInterval, subscriberIntervals, p.heap, at)
        b == closeOpen(currentBothInterval, bothIntervals, s.heap, at)
    IN  /\ pc' = "truncate"
        /\ publisherIntervals' = p.intervals
        /\ subscriberIntervals' = s.intervals
        /\ bothIntervals' = b.intervals
        /\ heap' = b.heap
        /\ UNCHANGED <<itemIndex, lastTimestamp,
                       publisherPresent, subscriberPresent, bothPresent,
                       currentPublisherInterval, currentSubscriberInterval,
                       currentBothInterval>>

\* Line 88: the items are exhausted; the loop ends. Whatever interval is
\* still current is left as it is.
loopExit ==
    /\ pc' = "truncate"
    /\ UNCHANGED loopVars

LoopExit ==
    /\ pc = "loop"
    /\ loopExit
    /\ UNCHANGED <<start, end, promise, historyRequested, startDate, endDate>>
    /\ UNCHANGED <<traceVars, deliveriesVars>>

\* ------------------------------------------------------------ truncation

\* A discard test that keeps the intervals touching a bound.
discardsInterval_strict(interval, sd, ed) ==
    DateGT(interval.start, ed) \/ DateLT(interval.end, sd)

\* Line 144: an interval that does not reach into the bounds is discarded.
discardsInterval(interval, sd, ed) ==
    DateGE(interval.start, ed) \/ DateLE(interval.end, sd)

\* Lines 149-152: an interval that starts before the bounds gets startDate
\* as its start (the object itself is assigned to).
truncateStart(interval, sd) ==
    IF DateLT(interval.start, sd) THEN [interval EXCEPT !.start = sd] ELSE interval

\* An interval's end left as it is.
truncateEnd_noClamp(interval, ed) == interval

\* Lines 153-156: an interval that ends after the bounds gets endDate as its
\* end (the object itself is assigned to).
truncateEnd(interval, ed) ==
    IF DateGT(interval.end, ed) THEN [interval EXCEPT !.end = ed] ELSE interval

\* Lines 141-160: truncateIntervals(intervals), with the objects it assigns
\* to: the list of the references kept, and the heap afterwards.
RECURSIVE truncateIntervals(_, _, _, _)
truncateIntervals(intervals, h, sd, ed) ==
    IF intervals = <<>>
    THEN [result |-> <<>>, heap |-> h]
    ELSE LET ref == Head(intervals)
             interval == h[ref]
         IN  IF discardsInterval(interval, sd, ed)
             THEN truncateIntervals(Tail(intervals), h, sd, ed)
             ELSE LET truncated == truncateEnd(truncateStart(interval, sd), ed)
                      rest == truncateIntervals(Tail(intervals),
                                                [h EXCEPT ![ref] = truncated], sd, ed)
                  IN  [result |-> <<ref>> \o rest.result, heap |-> rest.heap]

\* Lines 161-163: the three lists are truncated, one after the other.
Truncate ==
    /\ pc = "truncate"
    /\ LET p == truncateIntervals(publisherIntervals, heap, startDate, endDate)
           s == truncateIntervals(subscriberIntervals, p.heap, startDate, endDate)
           b == truncateIntervals(bothIntervals, s.heap, startDate, endDate)
       IN  /\ publisherIntervals' = p.result
           /\ subscriberIntervals' = s.result
           /\ bothIntervals' = b.result
           /\ heap' = b.heap
    /\ pc' = "aggregate"
    /\ UNCHANGED <<start, end, promise, historyRequested, startDate, endDate,
                   itemIndex, lastTimestamp,
                   publisherPresent, subscriberPresent, bothPresent,
                   currentPublisherInterval, currentSubscriberInterval,
                   currentBothInterval>>
    /\ UNCHANGED <<traceVars, deliveriesVars>>

\* ----------------------------------------------------------- aggregation

\* A contribution that assigns the interval's length where the code adds it.
addInterval_assigns(acc, interval) ==
    [millis |-> Minus(getTime(interval.end), getTime(interval.start)),
     earliest |-> IF acc.earliest = Number(0) THEN interval.start ELSE acc.earliest]

\* A contribution that takes every interval's start as the earliest.
addInterval_lastStart(acc, interval) ==
    [millis |-> Plus(acc.millis,
                     Minus(getTime(interval.end), getTime(interval.start))),
     earliest |-> interval.start]

\* Lines 178-181 (and 186-189, 194-197): one interval's contribution.
addInterval(acc, interval) ==
    [millis |-> Plus(acc.millis,
                     Minus(getTime(interval.end), getTime(interval.start))),
     earliest |-> IF acc.earliest = Number(0) THEN interval.start ELSE acc.earliest]

\* Lines 177-182 (and 185-190, 193-198): intervals.forEach, from the
\* accumulators' values so far.
RECURSIVE forEachInterval(_, _, _)
forEachInterval(intervals, h, acc) ==
    IF intervals = <<>>
    THEN acc
    ELSE forEachInterval(Tail(intervals), h, addInterval(acc, h[Head(intervals)]))

\* Lines 167-175: the accumulators' initial values.
zeroStats == [millis |-> Number(0), earliest |-> Number(0)]

\* Lines 166-212: the statistics record the promise is resolved with.
statistics ==
    LET durationMillis == Minus(getTime(endDate), getTime(startDate))
        p == forEachInterval(publisherIntervals, heap, zeroStats)
        s == forEachInterval(subscriberIntervals, heap, zeroStats)
        b == forEachInterval(bothIntervals, heap, zeroStats)
    IN  [durationMillis |-> durationMillis,
         publisherPresentMillis |-> p.millis,
         publisherPresentPercent |-> PercentOf(p.millis, durationMillis),
         earliestPublisherPresent |-> p.earliest,
         subscriberPresentMillis |-> s.millis,
         subscriberPresentPercent |-> PercentOf(s.millis, durationMillis),
         earliestSubscriberPresent |-> s.earliest,
         bothPresentMillis |-> b.millis,
         bothPresentPercent |-> PercentOf(b.millis, durationMillis),
         earliestBothPresent |-> b.earliest]

Aggregate ==
    /\ pc = "aggregate"
    /\ promise' = Resolved(statistics)
    /\ pc' = "resolved"
    /\ UNCHANGED <<start, end, historyRequested, startDate, endDate>>
    /\ UNCHANGED loopVars
    /\ UNCHANGED <<traceVars, deliveriesVars>>

\* ---------------------------------------------------------- specification

Next ==
    \/ ValidateBounds
    \/ HistoryCallback
    \/ ProcessItem
    \/ LoopExit
    \/ Truncate
    \/ Aggregate

Spec == Init /\ [][Next]_vars

\* The same program with the consumed items recorded.
NextTrace ==
    \/ ValidateBounds
    \/ HistoryCallback
    \/ ProcessItemTraced
    \/ LoopExit
    \/ Truncate
    \/ Aggregate

\* The loop reads neither bound (lines 88-138), so the items are recorded
\* for one window, the whole range of the instants.
InitTrace ==
    /\ Init
    /\ start = IsoString(0)
    /\ end = IsoString(10 * MaxTick)

SpecTrace == InitTrace /\ [][NextTrace]_vars

\* ================================================================ claims

\* The promise has been resolved with a statistics record.
IsResolved == promise.state = "resolved"

\* The bounds were parsed into two instants with start < end.
WindowIsValid ==
    /\ start.parseable /\ end.parseable
    /\ start.instant < end.instant

TrackNames == {"publisher", "subscriber", "both"}

\* A track's fields of the statistics record.
MillisOf(stats, track) ==
    CASE track = "publisher" -> stats.publisherPresentMillis
      [] track = "subscriber" -> stats.subscriberPresentMillis
      [] track = "both" -> stats.bothPresentMillis

PercentageOf(stats, track) ==
    CASE track = "publisher" -> stats.publisherPresentPercent
      [] track = "subscriber" -> stats.subscriberPresentPercent
      [] track = "both" -> stats.bothPresentPercent

EarliestOf(stats, track) ==
    CASE track = "publisher" -> stats.earliestPublisherPresent
      [] track = "subscriber" -> stats.earliestSubscriberPresent
      [] track = "both" -> stats.earliestBothPresent

\* A track's variables.
IntervalsOf(track) ==
    CASE track = "publisher" -> publisherIntervals
      [] track = "subscriber" -> subscriberIntervals
      [] track = "both" -> bothIntervals

CurrentOf(track) ==
    CASE track = "publisher" -> currentPublisherInterval
      [] track = "subscriber" -> currentSubscriberInterval
      [] track = "both" -> currentBothInterval

PresentOf(track) ==
    CASE track = "publisher" -> publisherPresent
      [] track = "subscriber" -> subscriberPresent
      [] track = "both" -> bothPresent

TagOf(track) ==
    CASE track = "publisher" -> "PUBLISHER"
      [] track = "subscriber" -> "SUBSCRIBER"
      [] track = "both" -> "BOTH"

\* C1: for every time-ordered event sequence and every window with
\* start < end, the resolved statistics have bothPresentMillis no greater
\* than publisherPresentMillis and no greater than subscriberPresentMillis,
\* also when a role enters and never leaves.
C1_BothWithinEachRole ==
    (IsResolved /\ WindowIsValid) =>
        /\ promise.value.bothPresentMillis.value
               <= promise.value.publisherPresentMillis.value
        /\ promise.value.bothPresentMillis.value
               <= promise.value.subscriberPresentMillis.value

\* C2: with a window start < end, each track's percentage lies in [0, 100]:
\* each track's presentMillis lies between 0 and durationMillis.
C2_PercentWithinRange ==
    (IsResolved /\ WindowIsValid) =>
        \A track \in TrackNames :
            LET millis == MillisOf(promise.value, track)
                percent == PercentageOf(promise.value, track)
                duration == promise.value.durationMillis
            IN  /\ ~millis.nan /\ ~duration.nan /\ ~percent.nan
                /\ 0 <= millis.value /\ millis.value <= duration.value
                /\ percent.den > 0
                /\ 0 <= percent.num /\ percent.num <= 100 * percent.den

\* C2's case: a publisher interval reaching over both bounds is cut down to
\* the whole window (100 percent), while both were present for part of it.
C2_Witness ==
    /\ IsResolved /\ WindowIsValid
    /\ start.instant > 0
    /\ promise.value.publisherPresentPercent.num
           = 100 * promise.value.publisherPresentPercent.den
    /\ promise.value.bothPresentMillis.value > 0
    /\ promise.value.bothPresentMillis.value < promise.value.durationMillis.value

\* C3: when either bound cannot be parsed into an instant, processDelivery
\* rejects before the presence history is requested or any item is
\* processed, and resolves with no statistics record.
C3_UnparseableBoundRejects ==
    ((~start.parseable \/ ~end.parseable) /\ pc # "validate") =>
        /\ promise.state = "rejected"
        /\ ~historyRequested
        /\ itemIndex = 0

\* C4: when window.start >= window.end, processDelivery rejects with the
\* incompatible-bounds failure before the presence history is requested or
\* any item is processed, and never resolves.
C4_InvalidWindowRejects ==
    (start.parseable /\ end.parseable /\ start.instant >= end.instant
        /\ pc # "validate") =>
        /\ pc = "rejected"
        /\ promise = Rejected("Incompatible time bounds given; end is not later than start")
        /\ ~historyRequested
        /\ itemIndex = 0
        /\ heap = <<>>

\* C4's case: bounds whose end is the start itself have been rejected.
C4_Witness ==
    /\ start.parseable /\ end.parseable
    /\ start.instant = end.instant
    /\ pc = "rejected"
    /\ promise.state = "rejected"

\* C5: clipping a track's interval list does not mutate the interval objects
\* it is given: every object keeps its start and end over truncateIntervals.
C5_TruncateKeepsObjects ==
    [][pc = "truncate" => heap' = heap]_vars

Max(a, b) == IF a >= b THEN a ELSE b

Min(a, b) == IF a <= b THEN a ELSE b

\* What clipping [s, e] to the window [ws, we) is to give: dropped, the
\* interval itself, or its overlap with the window.
ClipOf(s, e, ws, we) ==
    IF s >= we \/ e <= ws
    THEN <<>>
    ELSE IF ws <= s /\ e <= we
         THEN << <<s, e>> >>
         ELSE << <<Max(s, ws), Min(e, we)>> >>

\* The clipped (start, end) pairs of a list of interval references, by
\* position, from its last interval back.
RECURSIVE ClipAll(_, _, _, _)
ClipAll(intervals, h, ws, we) ==
    IF intervals = <<>>
    THEN <<>>
    ELSE LET n == Len(intervals)
             last == h[intervals[n]]
         IN  ClipAll(SubSeq(intervals, 1, n - 1), h, ws, we)
                 \o ClipOf(last.start.time, last.end.time, ws, we)

\* The (start, end) pairs of a list of interval references.
PairsOf(intervals, h) ==
    [i \in 1 .. Len(intervals) |->
        <<h[intervals[i]].start.time, h[intervals[i]].end.time>>]

\* C6: with ws < we, truncateIntervals drops an interval [s, e] when s >= we
\* or e <= ws, returns it unchanged when it lies inside the window, and
\* otherwise returns [max(s, ws), min(e, we)]; every surviving interval
\* satisfies ws <= start <= end <= we.
C6_ClippingCorrect ==
    [][(pc = "truncate" /\ WindowIsValid) =>
        \A track \in TrackNames :
            /\ PairsOf(IntervalsOf(track)', heap')
                   = ClipAll(IntervalsOf(track), heap, start.instant, end.instant)
            /\ \A i \in 1 .. Len(IntervalsOf(track)') :
                   LET interval == heap'[IntervalsOf(track)'[i]]
                   IN  /\ start.instant <= interval.start.time
                       /\ interval.start.time <= interval.end.time
                       /\ interval.end.time <= end.instant]_vars

\* C6's case: after two items (an enter and a leave of the publisher) the
\* one interval has been clipped: it now ends at the window's end, before
\* the leave's timestamp, and starts at the window's start.
C6_Witness ==
    /\ pc = "aggregate" /\ WindowIsValid
    /\ itemIndex = 2
    /\ Len(heap) = 1
    /\ publisherIntervals = <<1>>
    /\ heap[1].end = endDate
    /\ heap[1].end.time < lastTimestamp
    /\ heap[1].start = startDate
    /\ start.instant > 0

\* The references a list holds.
RefsOf(intervals) == {intervals[i] : i \in 1 .. Len(intervals)}

\* The interval objects opened for a track so far.
OpenedOf(track) ==
    {ref \in 1 .. Len(heap) : heap[ref].publisherOrSubscriber = TagOf(track)}

C8_OpenedEqualsClosedPlusOpen ==
    pc \in {"loop", "truncate"} =>
        \A track \in TrackNames :
            Cardinality(OpenedOf(track))
                = Len(IntervalsOf(track))
                    + (IF CurrentOf(track) # undefined THEN 1 ELSE 0)

\* C8's case: the publisher track and the both track have each closed one
\* interval and opened a second, the subscriber track has only an open one.
C8_Witness ==
    /\ pc = "loop"
    /\ Len(publisherIntervals) = 1
    /\ currentPublisherInterval # undefined
    /\ Len(bothIntervals) = 1
    /\ currentBothInterval # undefined
    /\ subscriberIntervals = <<>>
    /\ currentSubscriberInterval # undefined

\* The sum of end - start over the intervals a list refers to, taken over
\* the set of its positions.
RECURSIVE SumOver(_, _, _)
SumOver(positions, intervals, h) ==
    IF positions = {}
    THEN 0
    ELSE LET i == CHOOSE j \in positions : TRUE
         IN  (h[intervals[i]].end.time - h[intervals[i]].start.time)
                 + SumOver(positions \ {i}, intervals, h)

\* The history [PUBLISHER enter t=0, SUBSCRIBER enter t=10, PUBLISHER leave
\* t=20, SUBSCRIBER leave t=30] with the window [0, 30): four items, which
\* opened and closed these three intervals in this order.
ScenarioRun ==
    /\ start = IsoString(0) /\ end = IsoString(30)
    /\ itemIndex = 4
    /\ heap = << [publisherOrSubscriber |-> "PUBLISHER",
                  start |-> Date(0), end |-> Date(20)],
                 [publisherOrSubscriber |-> "SUBSCRIBER",
                  start |-> Date(10), end |-> Date(30)],
                 [publisherOrSubscriber |-> "BOTH",
                  start |-> Date(10), end |-> Date(20)] >>

\* C9: each track's presentMillis is the sum of clippedEnd - clippedStart
\* over the intervals that survive clipping; the history [PUBLISHER enter 0,
\* SUBSCRIBER enter 10, PUBLISHER leave 20, SUBSCRIBER leave 30] with window
\* [0, 30) gives 20, 20 and 10.
C9_MillisIsSumOfSurvivors ==
    IsResolved =>
        /\ \A track \in TrackNames :
               MillisOf(promise.value, track)
                   = Number(SumOver(1 .. Len(IntervalsOf(track)),
                                    IntervalsOf(track), heap))
        /\ ScenarioRun =>
               /\ promise.value.publisherPresentMillis = Number(20)
               /\ promise.value.subscriberPresentMillis = Number(20)
               /\ promise.value.bothPresentMillis = Number(10)

\* C9's case: the scenario's run has resolved.
C9_Witness ==
    /\ IsResolved
    /\ ScenarioRun
    /\ Len(publisherIntervals) = 1
    /\ Len(subscriberIntervals) = 1
    /\ Len(bothIntervals) = 1

\* The value the specification names for "no interval survives".
None == [type |-> "string", value |-> "none"]

\* A track's earliestPresent, given the value that stands for no interval:
\* the start of the first surviving interval, which no other surviving
\* interval precedes.
EarliestIsFirstSurvivor(track, none) ==
    LET intervals == IntervalsOf(track)
        earliest == EarliestOf(promise.value, track)
    IN  IF intervals = <<>>
        THEN earliest = none
        ELSE /\ earliest = heap[intervals[1]].start
             /\ \A i \in 1 .. Len(intervals) :
                    earliest.time <= heap[intervals[i]].start.time

\* C10 as stated: each track's earliestPresent is the clipped start of the
\* first surviving interval, and is "none" when no interval survives.
C10_EarliestOrNone ==
    IsResolved => \A track \in TrackNames : EarliestIsFirstSurvivor(track, None)

\* C10 as amended: each track's earliestPresent is the clipped start of the
\* first surviving interval, and is the number 0 when no interval survives.
C10_EarliestOrZero ==
    IsResolved => \A track \in TrackNames : EarliestIsFirstSurvivor(track, Number(0))

\* C10's case: two publisher intervals survive, the first of them clipped
\* to the window's start, and no subscriber interval does.
C10_Witness ==
    /\ IsResolved /\ WindowIsValid
    /\ Len(publisherIntervals) = 2
    /\ start.instant > 0
    /\ promise.value.earliestPublisherPresent = startDate
    /\ heap[publisherIntervals[2]].start.time > start.instant
    /\ subscriberIntervals = <<>>
    /\ promise.value.earliestSubscriberPresent = Number(0)

\* The positions of processDelivery at which the loop's variables hold the
\* state after a prefix of the items.
LoopStates == {"loop", "truncate"}

\* C13: after every processed item, bothPresent is publisherPresent and
\* subscriberPresent.
C13_BothIsConjunction ==
    pc \in {"loop", "truncate", "aggregate", "resolved"} =>
        bothPresent = (publisherPresent /\ subscriberPresent)

\* C13's case: both were present, the publisher left and the subscriber
\* stayed.
C13_Witness ==
    /\ pc = "loop"
    /\ Len(bothIntervals) = 1
    /\ ~bothPresent /\ ~publisherPresent /\ subscriberPresent

\* C15: in every state of the loop each track has an open-interval
\* reference iff its presence boolean is true; so a close always finds an
\* interval to end (the loop never throws), and a reference that is set is
\* only ever cleared, with its interval pushed, never overwritten.
C15_OpenIffPresent ==
    [][(pc = "loop") =>
        /\ pc' # "threw"
        /\ \A track \in TrackNames :
               /\ (CurrentOf(track) # undefined) <=> PresentOf(track)
               /\ (CurrentOf(track)' # undefined) <=> PresentOf(track)'
               /\ (CurrentOf(track) # undefined
                       /\ CurrentOf(track)' # CurrentOf(track)) =>
                      /\ CurrentOf(track)' = undefined
                      /\ IntervalsOf(track)'
                             = Append(IntervalsOf(track), CurrentOf(track))]_vars

\* C15's case: every track has opened, closed and opened again.
C15_Witness ==
    /\ pc = "loop"
    /\ \A track \in {"publisher", "both"} :
           /\ Len(IntervalsOf(track)) = 1
           /\ PresentOf(track)
           /\ CurrentOf(track) # undefined
    /\ subscriberPresent

\* C18: an interval is opened with the timestamp of the item that turns its
\* track's boolean true as its start, and is appended with the timestamp of
\* the next item that turns the boolean false as its end; in between and
\* afterwards the loop leaves its start and end alone, and every appended
\* interval has start <= end.
C18_IntervalBounds ==
    [][(pc = "loop" /\ pc' = "loop") =>
        /\ \A ref \in 1 .. Len(heap) :
               /\ heap'[ref].start = heap[ref].start
               /\ heap[ref].end # Undefined => heap'[ref].end = heap[ref].end
        /\ \A track \in TrackNames :
               /\ (~PresentOf(track) /\ PresentOf(track)') =>
                      /\ CurrentOf(track)' \in (Len(heap) + 1) .. Len(heap')
                      /\ heap'[CurrentOf(track)'].start = Date(lastTimestamp')
                      /\ heap'[CurrentOf(track)'].end = Undefined
                      /\ IntervalsOf(track)' = IntervalsOf(track)
               /\ (PresentOf(track) /\ ~PresentOf(track)') =>
                      /\ IntervalsOf(track)'
                             = Append(IntervalsOf(track), CurrentOf(track))
                      /\ heap'[CurrentOf(track)].end = Date(lastTimestamp')
                      /\ heap[CurrentOf(track)].end = Undefined
               /\ (PresentOf(track) = PresentOf(track)') =>
                      /\ IntervalsOf(track)' = IntervalsOf(track)
                      /\ CurrentOf(track)' = CurrentOf(track)
               /\ \A i \in 1 .. Len(IntervalsOf(track)') :
                      LET interval == heap'[IntervalsOf(track)'[i]]
                      IN  /\ interval.publisherOrSubscriber = TagOf(track)
                          /\ interval.start.time <= interval.end.time]_vars

\* C18's case: the publisher's interval was opened at 10 and closed at 30,
\* with another item in between.
C18_Witness ==
    /\ pc = "loop"
    /\ itemIndex >= 3
    /\ Len(publisherIntervals) = 1
    /\ heap[publisherIntervals[1]].start = Date(10)
    /\ heap[publisherIntervals[1]].end = Date(30)
    /\ lastTimestamp = 30
    /\ Len(bothIntervals) = 1

\* C20: each track's interval list is in chronological order and its
\* intervals do not overlap: an interval ends no later than the next one
\* starts, before and after clipping.
C20_ChronologicalDisjoint ==
    pc \in {"loop", "truncate", "aggregate", "resolved"} =>
        \A track \in TrackNames :
            \A i \in 1 .. Len(IntervalsOf(track)) - 1 :
                LET this == heap[IntervalsOf(track)[i]]
                    next == heap[IntervalsOf(track)[i + 1]]
                IN  /\ this.start.time <= this.end.time
                    /\ this.end.time <= next.start.time
                    /\ next.start.time <= next.end.time

\* C20's case: two publisher intervals survive the clipping, the first
\* starting at the window's start and ending where the second starts.
C20_Witness ==
    /\ pc = "resolved" /\ WindowIsValid
    /\ Len(publisherIntervals) = 2
    /\ itemIndex = 4
    /\ start.instant > 0
    /\ heap[publisherIntervals[1]].start = startDate
    /\ heap[publisherIntervals[1]].end.time > start.instant
    /\ heap[publisherIntervals[1]].end = heap[publisherIntervals[2]].start
    /\ heap[publisherIntervals[2]].end = endDate

\* The other role.
OtherRole(role) == IF role = "PUBLISHER" THEN "SUBSCRIBER" ELSE "PUBLISHER"

\* A role's track.
TrackOf(role) == IF role = "PUBLISHER" THEN "publisher" ELSE "subscriber"

\* C14: after any prefix of the items, a role's presence boolean is true iff
\* the role has an item in the prefix and the action of its most recent item
\* is enter or update; any other action (leave, or one the loop does not
\* name) makes it false.
C14_PresentIffLastActionSignals ==
    pc \in LoopStates =>
        \A role \in Roles :
            /\ PresentOf(TrackOf(role))
                   <=> lastActionOf[role] \in {"enter", "update"}
            /\ lastActionOf[role] \in {"none", "leave", "absent"}
                   => ~PresentOf(TrackOf(role))

\* C14's case: the publisher's last item is an update after it had left,
\* the subscriber's only item has an action the loop does not name.
C14_Witness ==
    /\ pc = "loop"
    /\ lastActionOf["PUBLISHER"] = "update"
    /\ Len(publisherIntervals) = 1
    /\ publisherPresent
    /\ lastActionOf["SUBSCRIBER"] = "absent"
    /\ ~subscriberPresent

\* C16: an item of one role leaves the other role's presence boolean,
\* open-interval reference, interval list and interval objects unchanged.
C16_OtherRoleUntouched ==
    [][(pc = "loop" /\ pc' = "loop") =>
        \A role \in Roles : role = item'.publisherOrSubscriber =>
        LET other == TrackOf(OtherRole(role))
        IN  /\ PresentOf(other)' = PresentOf(other)
            /\ CurrentOf(other)' = CurrentOf(other)
            /\ IntervalsOf(other)' = IntervalsOf(other)
            /\ \A ref \in 1 .. Len(heap) :
                   heap[ref].publisherOrSubscriber = TagOf(other)
                       => heap'[ref] = heap[ref]
            /\ \A ref \in (Len(heap) + 1) .. Len(heap') :
                   heap'[ref].publisherOrSubscriber # TagOf(other)]_vars

\* C16's case: a subscriber's leave has just closed the subscriber's and the
\* both interval while the publisher stays present with its interval open.
C16_Witness ==
    /\ pc = "loop"
    /\ item = [publisherOrSubscriber |-> "SUBSCRIBER", action |-> "leave"]
    /\ Len(subscriberIntervals) = 1
    /\ Len(bothIntervals) = 1
    /\ publisherPresent
    /\ currentPublisherInterval # undefined
    /\ publisherIntervals = <<>>

\* C17: an item whose action puts its role in the presence state the role
\* is in already changes none of the three booleans, open-interval
\* references, interval lists or interval objects.
C17_SameStateChangesNothing ==
    [][(pc = "loop" /\ pc' = "loop"
          /\ signalsPresence(item'.action)
                 = PresentOf(TrackOf(item'.publisherOrSubscriber))) =>
        /\ heap' = heap
        /\ \A track \in TrackNames :
               /\ PresentOf(track)' = PresentOf(track)
               /\ CurrentOf(track)' = CurrentOf(track)
               /\ IntervalsOf(track)' = IntervalsOf(track)]_vars

\* C17's case: an update of the publisher while both are present, after the
\* publisher's enter: three items, and still one open interval per track.
C17_Witness ==
    /\ pc = "loop"
    /\ itemIndex = 3
    /\ item = [publisherOrSubscriber |-> "PUBLISHER", action |-> "update"]
    /\ lastActionOf["SUBSCRIBER"] = "enter"
    /\ Len(heap) = 3
    /\ bothPresent
    /\ heap[currentPublisherInterval].start.time < lastTimestamp

\* ------------------------------------------------------ processDeliveries
\* processDeliveries(deliveries) with NumDeliveries deliveries. Each forEach
\* callback awaits its own processDelivery call, whose run is modelled above;
\* here a call is followed only as far as the outcome of its promise.
\* callbackState[i] is the position of the callback of deliveries[i]:
\*   "notCalled" forEach has not called it
\*   "rejected"  awaiting a promise that has been rejected
\*   "history"   awaiting a promise whose history request is outstanding
\*   "resolved"  awaiting a promise that has been resolved with statistics
\*   "stored"    past histories.set
\*   "unhandled" ended by the rejection, which nothing handles
\*   "warned"    the runtime has reported the unhandled rejection
\*   "threw"     its history callback threw

DeliveryIds == 1 .. NumDeliveries

\* The arrays of NumDeliveries deliveries {id, start, end}, the ids distinct.
DeliveryArrays ==
    {[i \in DeliveryIds |-> [id |-> i, start |-> b[i][1], end |-> b[i][2]]] :
        b \in [DeliveryIds -> DateStrings \X DateStrings]}

InitDeliveries ==
    /\ start = Garbage
    /\ end = Garbage
    /\ InitLocals
    /\ TraceIdle
    /\ deliveries \in DeliveryArrays
    /\ apiKeySet \in BOOLEAN
    /\ unhandledRejections \in {"throw", "warn"}
    /\ nodeProcess = "running"
    /\ processDeliveriesPc = "call"
    /\ callbackState = [i \in DeliveryIds |-> "notCalled"]
    /\ histories = {}
    /\ processDeliveriesPromise = Pending

\* Lines 55-68: what processDelivery's executor, which runs within the call,
\* leaves behind: a rejected promise, or an outstanding history request.
executorOutcome(delivery) ==
    IF NewDateThrows(delivery.start) \/ NewDateThrows(delivery.end)
    THEN "rejected"
    ELSE IF DateGE(NewDate(delivery.start), NewDate(delivery.end))
         THEN "rejected"
         ELSE "history"

\* The callbacks that are to resume from their await: the microtasks queued.
microtasksQueued ==
    \E i \in DOMAIN callbackState : callbackState[i] \in {"rejected", "resolved"}

\* Lines 15-26, up to the await: without the key, throw; otherwise forEach
\* calls the callback for every delivery, each running up to its own await,
\* and returns undefined, which processDeliveries awaits.
ProcessDeliveriesCall ==
    /\ nodeProcess = "running"
    /\ processDeliveriesPc = "call"
    /\ IF ~apiKeySet
       THEN /\ processDeliveriesPromise'
                = Rejected("Unable to process deliveries; ABLY_API_KEY is not set")
            /\ processDeliveriesPc' = "threw"
            /\ UNCHANGED callbackState
       ELSE /\ callbackState' = [i \in DeliveryIds |-> executorOutcome(deliveries[i])]
            /\ processDeliveriesPc' = "awaiting"
            /\ UNCHANGED processDeliveriesPromise
    /\ UNCHANGED <<deliveries, apiKeySet, unhandledRejections, nodeProcess, histories>>
    /\ UNCHANGED <<deliveryVars, traceVars>>

\* Lines 26-27: the await of undefined resumes in the first microtask, ahead
\* of every callback's await (which takes the ticks of adopting the promise
\* an async function returned); processDeliveries returns the Map as it is.
ProcessDeliveriesReturn ==
    /\ nodeProcess = "running"
    /\ processDeliveriesPc = "awaiting"
    /\ processDeliveriesPromise' = Resolved(histories)
    /\ processDeliveriesPc' = "returned"
    /\ UNCHANGED <<deliveries, apiKeySet, unhandledRejections, nodeProcess,
                   callbackState, histories>>
    /\ UNCHANGED <<deliveryVars, traceVars>>

\* Line 23: the await of a rejected promise throws in the callback, whose
\* own promise forEach has dropped: the rejection is unhandled.
CallbackRejects(i) ==
    /\ nodeProcess = "running"
    /\ processDeliveriesPc = "returned"
    /\ callbackState[i] = "rejected"
    /\ callbackState' = [callbackState EXCEPT ![i] = "unhandled"]
    /\ UNCHANGED <<deliveries, apiKeySet, unhandledRejections, nodeProcess,
                   processDeliveriesPc, histories, processDeliveriesPromise>>
    /\ UNCHANGED <<deliveryVars, traceVars>>

\* Lines 23-25: the await of a resolved promise resumes; the statistics are
\* printed and stored under the delivery's id.
CallbackStores(i) ==
    /\ nodeProcess = "running"
    /\ processDeliveriesPc = "returned"
    /\ callbackState[i] = "resolved"
    /\ histories' = histories \cup {deliveries[i].id}
    /\ callbackState' = [callbackState EXCEPT ![i] = "stored"]
    /\ UNCHANGED <<deliveries, apiKeySet, unhandledRejections, nodeProcess,
                   processDeliveriesPc, processDeliveriesPromise>>
    /\ UNCHANGED <<deliveryVars, traceVars>>

\* What the runtime does with an unhandled rejection once the microtasks
\* have run: end the process (the default since Node.js 15) or warn.
unhandledRejectionEndsProcess == unhandledRejections = "throw"

\* Line 22: the rejection of a callback's promise, which nothing handles.
UnhandledRejection(i) ==
    /\ nodeProcess = "running"
    /\ ~microtasksQueued
    /\ callbackState[i] = "unhandled"
    /\ IF unhandledRejectionEndsProcess
       THEN /\ nodeProcess' = "exited"
            /\ UNCHANGED callbackState
       ELSE /\ callbackState' = [callbackState EXCEPT ![i] = "warned"]
            /\ UNCHANGED nodeProcess
    /\ UNCHANGED <<deliveries, apiKeySet, unhandledRejections,
                   processDeliveriesPc, histories, processDeliveriesPromise>>
    /\ UNCHANGED <<deliveryVars, traceVars>>

\* Lines 68-213, for deliveries[i]: the history callback, a task of its own
\* that runs when no microtask and no unhandled rejection is left. With the
\* items it resolves the promise; with an error it rejects it, or throws
\* when no result object comes along, and the exception ends the process.
DeliveryHistoryCallback(i) ==
    /\ nodeProcess = "running"
    /\ processDeliveriesPc = "returned"
    /\ ~microtasksQueued
    /\ \A j \in DOMAIN callbackState : callbackState[j] # "unhandled"
    /\ callbackState[i] = "history"
    /\ \E err \in BOOLEAN, resultGiven \in BOOLEAN :
         IF err
         THEN IF resultGiven
              THEN /\ callbackState' = [callbackState EXCEPT ![i] = "rejected"]
                   /\ UNCHANGED nodeProcess
              ELSE /\ callbackState' = [callbackState EXCEPT ![i] = "threw"]
                   /\ nodeProcess' = "exited"
         ELSE /\ resultGiven
              /\ callbackState' = [callbackState EXCEPT ![i] = "resolved"]
              /\ UNCHANGED nodeProcess
    /\ UNCHANGED <<deliveries, apiKeySet, unhandledRejections,
                   processDeliveriesPc, histories, processDeliveriesPromise>>
    /\ UNCHANGED <<deliveryVars, traceVars>>

NextDeliveries ==
    \/ ProcessDeliveriesCall
    \/ ProcessDeliveriesReturn
    \/ \E i \in DeliveryIds : CallbackRejects(i)
    \/ \E i \in DeliveryIds : CallbackStores(i)
    \/ \E i \in DeliveryIds : UnhandledRejection(i)
    \/ \E i \in DeliveryIds : DeliveryHistoryCallback(i)

SpecDeliveries == InitDeliveries /\ [][NextDeliveries]_vars

\* A delivery whose bounds parse to instants with start < end.
HasValidBounds(delivery) ==
    /\ delivery.start.parseable /\ delivery.end.parseable
    /\ delivery.start.instant < delivery.end.instant

\* C11: a rejection while one delivery is processed does not keep the other
\* deliveries from being processed: the run never ends with a delivery of
\* valid bounds still waiting for its history because another delivery's
\* promise was rejected.
C11_FailureLeavesOthers ==
    \A i \in DeliveryIds, j \in DeliveryIds :
        (i # j
            /\ callbackState[i] \in {"unhandled", "warned"}
            /\ HasValidBounds(deliveries[j])
            /\ callbackState[j] = "history")
        => nodeProcess = "running"

\* C19: when the promise processDeliveries returns is resolved, the Map it
\* is resolved with holds an entry for every delivery of the array (stated
\* for arrays whose deliveries all have valid bounds).
C19_ReturnedMapComplete ==
    (processDeliveriesPromise.state = "resolved"
        /\ \A i \in DeliveryIds : HasValidBounds(deliveries[i])) =>
        \A i \in DeliveryIds : deliveries[i].id \in processDeliveriesPromise.value

====
